---- MODULE Spec2Model ----
(***************************************************************************)
(* Model of convert.py: the batch DOCX -> Markdown converter.               *)
(*                                                                         *)
(* Texts (markdown, diagnostics) are sequences of characters, a character   *)
(* being a one-character string.  File-system paths are sequences of parts, *)
(* a part being a sequence of characters.                                   *)
(***************************************************************************)
EXTENDS Integers, Sequences, FiniteSets, TLC

----------------------------------------------------------------------------
(* Characters and character classes *)

NL == "\n"

\* the characters str.strip(), str.rstrip() and the regex class \s remove
Whitespace == {" ", "\t", "\n", "\r", "\f"}

\* the characters str.splitlines() breaks a text at
LineBreaks == {"\n", "\r", "\f"}

Letters == {"a", "b"}

Digits == {"0", "1"}

\* the regex class \w, which decides the word boundary \b
WordChars == Letters \cup Digits \cup {"_"}

\* the characters the normalizer is checked over
Alphabet == {"a", " ", NL, ":", "{", "}", "<", ">", "/"}

\* longest text the normalizer is checked over
MaxLen == 5

\* longer texts the normalizer is checked over as well
LongSamples ==
    {<<"a", NL, ":", ":", ":", NL, NL, NL, "a">>,
     <<"a", NL, "{", "}", NL, "<", "a", ">", NL, "a">>,
     <<"a", NL, NL, NL, NL, "a">>,
     <<"a", " ", "{", "a", "}", " ", "{", "a", "}">>,
     <<"<", "a", ">", "a", "<", "/", "a", ">", " ", "a">>,
     <<":", ":", ":", " ", "{", "a", "}", NL, "a", " ", "{", "a", "}", NL, ":", ":", ":">>,
     <<":", ":", ":", "<", "a", ">">>,
     <<"<", "<", "a", ">", "a", ">">>,
     <<"{", "a", "}", " ", "{", "a", "}">>}

RECURSIVE SeqsUpTo(_, _)
SeqsUpTo(S, n) ==
    IF n = 0 THEN {<<>>}
    ELSE LET shorter == SeqsUpTo(S, n - 1)
         IN  shorter \cup {Append(s, c) : s \in {t \in shorter : Len(t) = n - 1}, c \in S}

----------------------------------------------------------------------------
(* String helpers of the Python runtime *)

AllIn(s, lo, hi, S) == \A t \in lo..hi : s[t] \in S

\* str.splitlines(): the lines without their line breaks; "\r\n" is one break
RECURSIVE SplitFrom(_, _, _)
SplitFrom(s, i, cur) ==
    IF i > Len(s) THEN (IF cur = <<>> THEN <<>> ELSE <<cur>>)
    ELSE IF s[i] \in LineBreaks
         THEN LET step == IF s[i] = "\r" /\ i < Len(s) /\ s[i + 1] = "\n" THEN 2 ELSE 1
              IN  <<cur>> \o SplitFrom(s, i + step, <<>>)
         ELSE SplitFrom(s, i + 1, Append(cur, s[i]))

splitlines(s) == SplitFrom(s, 1, <<>>)

\* "\n".join(lines)
RECURSIVE join(_)
join(lines) ==
    IF lines = <<>> THEN <<>>
    ELSE IF Len(lines) = 1 THEN lines[1]
    ELSE lines[1] \o <<NL>> \o join(Tail(lines))

\* str.rstrip()
rstrip(s) ==
    LET keep == {t \in 1..Len(s) : s[t] \notin Whitespace}
    IN  IF keep = {} THEN <<>>
        ELSE SubSeq(s, 1, CHOOSE t \in keep : \A u \in keep : u <= t)

\* str.strip()
strip(s) ==
    LET keep == {t \in 1..Len(s) : s[t] \notin Whitespace}
    IN  IF keep = {} THEN <<>>
        ELSE SubSeq(s, CHOOSE t \in keep : \A u \in keep : t <= u,
                       CHOOSE t \in keep : \A u \in keep : u <= t)

----------------------------------------------------------------------------
(* The regular expressions of the normalizer *)

\* RE_FENCED_DIV_LINE.match(line):  ^\s*:::+\s*(\{.*\})?\s*$
RE_FENCED_DIV_LINE(line) ==
    LET n == Len(line)
    IN  \E i \in 0..n : \E j \in i..n : \E k \in j..n :
            /\ AllIn(line, 1, i, Whitespace)
            /\ j - i >= 3
            /\ AllIn(line, i + 1, j, {":"})
            /\ AllIn(line, j + 1, k, Whitespace)
            /\ \/ AllIn(line, k + 1, n, Whitespace)
               \/ /\ k + 1 <= n
                  /\ line[k + 1] = "{"
                  /\ \E q \in (k + 2)..n :
                        /\ line[q] = "}"
                        /\ \A t \in (k + 2)..(q - 1) : line[t] # NL
                        /\ AllIn(line, q + 1, n, Whitespace)

\* RE_ATTR_TRAILING matched with its first character at p:  \s*\{[^}]*\}\s*$
AttrTrailingAt(line, p) ==
    LET n == Len(line)
    IN  \E b \in p..n :
            /\ AllIn(line, p, b - 1, Whitespace)
            /\ line[b] = "{"
            /\ \E q \in (b + 1)..n :
                  /\ line[q] = "}"
                  /\ \A t \in (b + 1)..(q - 1) : line[t] # "}"
                  /\ AllIn(line, q + 1, n, Whitespace)

\* RE_ATTR_TRAILING.sub("", line): the leftmost match runs to the end of the
\* line, so it is the only one replaced
RE_ATTR_TRAILING_sub(line) ==
    LET starts == {p \in 1..Len(line) : AttrTrailingAt(line, p)}
    IN  IF starts = {} THEN line
        ELSE SubSeq(line, 1, (CHOOSE p \in starts : \A u \in starts : p <= u) - 1)

\* the ends q of a match of RE_HTML_TAG with its "<" at p:
\*   </?([A-Za-z][A-Za-z0-9]*)\b[^>]*>
HtmlTagEnds(line, p) ==
    LET n == Len(line)
        s == IF p + 1 <= n /\ line[p + 1] = "/" THEN p + 2 ELSE p + 1
    IN  IF ~(p <= n /\ line[p] = "<" /\ s <= n /\ line[s] \in Letters) THEN {}
        ELSE {q \in (s + 1)..n :
                /\ line[q] = ">"
                /\ \E e \in s..(q - 1) :
                      /\ AllIn(line, s, e, Letters \cup Digits)
                      /\ line[e + 1] \notin WordChars
                      /\ \A t \in (e + 1)..(q - 1) : line[t] # ">"}

\* RE_HTML_TAG.sub("", line): every non-overlapping match, left to right
RECURSIVE HtmlTagSubFrom(_, _)
HtmlTagSubFrom(line, i) ==
    IF i > Len(line) THEN <<>>
    ELSE LET ends == HtmlTagEnds(line, i)
         IN  IF ends = {} THEN <<line[i]>> \o HtmlTagSubFrom(line, i + 1)
             ELSE HtmlTagSubFrom(line, (CHOOSE q \in ends : \A u \in ends : u <= q) + 1)

RE_HTML_TAG_sub(line) == HtmlTagSubFrom(line, 1)

\* RE_MULTI_BLANK.sub("\n\n", text): a run of three or more "\n" becomes two
RECURSIVE MultiBlankSubFrom(_, _)
MultiBlankSubFrom(text, i) ==
    IF i > Len(text) THEN <<>>
    ELSE IF i + 2 <= Len(text) /\ AllIn(text, i, i + 2, {NL})
         THEN LET run == {j \in (i + 2)..Len(text) : AllIn(text, i, j, {NL})}
                  last == CHOOSE j \in run : \A u \in run : u <= j
              IN  <<NL, NL>> \o MultiBlankSubFrom(text, last + 1)
         ELSE <<text[i]>> \o MultiBlankSubFrom(text, i + 1)

\* a substitution that leaves the text as it is
RE_MULTI_BLANK_none(text) == text

RE_MULTI_BLANK_sub(text) == MultiBlankSubFrom(text, 1)

----------------------------------------------------------------------------
(* clean_markdown *)

\* the body of the loop over the lines: the line as appended to out_lines
CleanLine(line) == rstrip(RE_HTML_TAG_sub(RE_ATTR_TRAILING_sub(line)))

\* out_lines: fence lines are skipped, the other lines cleaned, in order
RECURSIVE OutLines(_)
OutLines(lines) ==
    IF lines = <<>> THEN <<>>
    ELSE IF RE_FENCED_DIV_LINE(Head(lines)) THEN OutLines(Tail(lines))
    ELSE <<CleanLine(Head(lines))>> \o OutLines(Tail(lines))

\* "" if l.strip() == "" else l, for every line
BlankToEmpty(lines) ==
    [t \in 1..Len(lines) |-> IF strip(lines[t]) = <<>> THEN <<>> ELSE lines[t]]

\* a trim of the end of the text only
FinalTrimRight(text) == rstrip(text) \o <<NL>>

\* text.strip() + "\n"
FinalTrim(text) == strip(text) \o <<NL>>

clean_markdown(md_text) ==
    LET text1 == join(OutLines(splitlines(md_text)))
        text2 == RE_MULTI_BLANK_sub(text1)
        text3 == join(BlankToEmpty(splitlines(text2)))
    IN  FinalTrim(text3)

----------------------------------------------------------------------------
(* Configuration of the script *)

SKIP_DIRS == {<<".", "v", "s">>,
              <<"m", "d", "_", "o", "u", "t">>,
              <<"_", "_", "p", "y", "c", "a", "c", "h", "e", "_", "_">>,
              <<".", "g", "i", "t">>}

MEDIA_SUFFIX == "_media"

TO_CANDIDATES == <<"gfm-raw_html-fenced_divs-bracketed_spans",
                   "gfm-raw_html-fenced_divs",
                   "gfm-raw_html",
                   "gfm",
                   "markdown-raw_html",
                   "markdown",
                   "plain">>

\* the office lock-file prefix tested by f.name.startswith("~$")
LockPrefix == <<"~", "$">>

\* the suffix the pattern "*.docx" of rglob asks of a file name
DocxSuffix == <<".", "d", "o", "c", "x">>

----------------------------------------------------------------------------
(* Paths below the input directory *)

\* code points of the characters that occur in the path names of the model
CodePoint == [c \in {"$", ".", "_", "a", "b", "c", "d", "e", "g", "h", "i", "m",
                     "o", "p", "s", "t", "u", "v", "x", "y", "~"} |->
    CASE c = "$" -> 36  [] c = "." -> 46  [] c = "_" -> 95  [] c = "a" -> 97
      [] c = "b" -> 98  [] c = "c" -> 99  [] c = "d" -> 100 [] c = "e" -> 101
      [] c = "g" -> 103 [] c = "h" -> 104 [] c = "i" -> 105 [] c = "m" -> 109
      [] c = "o" -> 111 [] c = "p" -> 112 [] c = "s" -> 115 [] c = "t" -> 116
      [] c = "u" -> 117 [] c = "v" -> 118 [] c = "x" -> 120 [] c = "y" -> 121
      [] c = "~" -> 126]

\* str.startswith / the tail test of the glob
StartsWith(s, prefix) ==
    Len(s) >= Len(prefix) /\ SubSeq(s, 1, Len(prefix)) = prefix

EndsWith(s, suffix) ==
    Len(s) >= Len(suffix) /\ SubSeq(s, Len(s) - Len(suffix) + 1, Len(s)) = suffix

\* str < str of Python: by code point, a proper prefix first
StrLess(s, t) ==
    \E k \in 1..(Len(t)) :
        /\ k <= Len(s) + 1
        /\ \A u \in 1..(k - 1) : s[u] = t[u]
        /\ \/ k = Len(s) + 1
           \/ k <= Len(s) /\ CodePoint[s[k]] < CodePoint[t[k]]

\* Path < Path: the lists of parts compared part by part
PathLess(p, q) ==
    \E k \in 1..(Len(q)) :
        /\ k <= Len(p) + 1
        /\ \A u \in 1..(k - 1) : p[u] = q[u]
        /\ \/ k = Len(p) + 1
           \/ k <= Len(p) /\ StrLess(p[k], q[k])

\* f.name
Name(path) == path[Len(path)]

\* whether rglob("*.docx") yields the file
GlobDocx(path) == EndsWith(Name(path), DocxSuffix)

\* a test that looks at the name of the parent directory only
is_in_skipped_dir_parent(path) == Len(path) >= 2 /\ path[Len(path) - 1] \in SKIP_DIRS

is_in_skipped_dir(path) == \E t \in 1..Len(path) : path[t] \in SKIP_DIRS

\* the test of the discovery loop of main: the file is appended to docx_files
Discovered(path) ==
    /\ GlobDocx(path)
    /\ ~is_in_skipped_dir(path)
    /\ ~StartsWith(Name(path), LockPrefix)

\* list.sort() of a list of distinct paths
Sorted(S) ==
    CHOOSE seq \in [1..Cardinality(S) -> S] :
        \A i, j \in 1..Cardinality(S) : i < j => PathLess(seq[i], seq[j])

\* names of files and directories the input trees of the model are built of
A_DOCX == <<"a", ".", "d", "o", "c", "x">>
B_DOCX == <<"b", ".", "d", "o", "c", "x">>
LOCK_A_DOCX == <<"~", "$", "a", ".", "d", "o", "c", "x">>
TILDE_DOCX == <<"~", ".", "d", "o", "c", "x">>
A_MD == <<"a", ".", "m", "d">>
SUB == <<"s", "u", "b">>
GIT == <<".", "g", "i", "t">>
MD_OUT == <<"m", "d", "_", "o", "u", "t">>
VS == <<".", "v", "s">>
PYCACHE == <<"_", "_", "p", "y", "c", "a", "c", "h", "e", "_", "_">>

\* the files an input tree of the model may hold
PathUniverse == {<<B_DOCX>>, <<SUB, A_DOCX>>, <<TILDE_DOCX>>,
                 <<LOCK_A_DOCX>>, <<A_MD>>,
                 <<GIT, A_DOCX>>, <<MD_OUT, B_DOCX>>, <<SUB, VS, A_DOCX>>,
                 <<PYCACHE, SUB, B_DOCX>>}

\* most files an input tree of the model holds
MaxFiles == 2

----------------------------------------------------------------------------
(* The external converter and the files it leaves *)

\* a byte sequence of the output file that is not valid UTF-8
BadByte == "\\xff"

\* U+FFFD, which errors="replace" puts in the place of an undecodable byte
ReplacementChar == "\\ufffd"

\* out_md.read_text(encoding="utf-8") raises UnicodeDecodeError
StrictDecodeFails(bytes) == \E t \in 1..Len(bytes) : bytes[t] = BadByte

\* a lossy decoding that drops the undecodable bytes (errors="ignore")
DecodeIgnore(bytes) == SelectSeq(bytes, LAMBDA c : c # BadByte)

\* out_md.read_text(encoding="utf-8", errors="replace")
DecodeReplace(bytes) ==
    [t \in 1..Len(bytes) |-> IF bytes[t] = BadByte THEN ReplacementChar ELSE bytes[t]]

\* the text the driver reads back from the output file
ReadBack(bytes) == IF StrictDecodeFails(bytes) THEN DecodeReplace(bytes) ELSE bytes

\* no file at the path
Absent == <<"absent">>

\* what a successful pandoc run writes to the output file
RawOutputs == {<<"a", " ", "{", "}", NL, NL, NL, NL, "<", "a", ">", "a", " ">>,
               <<"a", BadByte, NL>>}

\* what a failing pandoc run may leave at the output path, if anything
PartialOutput == <<"<", "a">>

\* the error and output channels of a pandoc run
Stderrs == {<<>>, <<"e", NL>>}

Stdouts == {<<>>, <<"o">>}

\* the completed pandoc processes: exit code, channels, and what the run wrote
\* to the path given with -o (Absent: the run wrote nothing)
ProcResults ==
    [rc : {0}, stdout : {<<>>}, stderr : Stderrs, wrote : RawOutputs]
    \cup [rc : {1}, stdout : Stdouts, stderr : Stderrs, wrote : {Absent, PartialOutput}]

\* x or y of Python, on texts
Or(x, y) == IF x # <<>> THEN x ELSE y

\* the pair run_pandoc returns for a completed process: check=True raises
\* CalledProcessError on a nonzero exit code
run_pandoc(proc) ==
    IF proc.rc = 0
    THEN <<TRUE, strip(Or(proc.stderr, <<>>))>>
    ELSE <<FALSE, strip(Or(proc.stderr, Or(proc.stdout, <<>>)))>>

\* the diagnostic kept without the format tag
FormatLastErrorBare(to_format, msg) == msg

\* f"[{to_format}] {msg}"
FormatLastError(to_format, msg) == <<"[" \o to_format \o "] ">> \o msg

\* the stdout of `pandoc --version`
VersionOutputs == {<<>>, <<"p", "3", NL, "x">>}

UnknownVersion == <<"pandoc (version unknown)">>

\* the value check_pandoc returns when the process exits with code 0
VersionOf(stdout) ==
    LET first_line == IF stdout # <<>> THEN strip(splitlines(stdout)[1]) ELSE <<>>
    IN  Or(first_line, UnknownVersion)

----------------------------------------------------------------------------
(* State *)

VARIABLES
    pc,          \* position of main (or "off" while only the normalizer runs)
    tree,        \* the files below input_dir, as paths relative to it
    pandoc_ver,  \* main: the version line
    docx_files,  \* main: the sorted list of discovered documents
    di,          \* main: index in docx_files of the document of the loop
    ok_count,    \* main
    fail_count,  \* main
    ci,          \* convert_with_fallback: index in TO_CANDIDATES of the loop
    last_error,  \* convert_with_fallback
    ret,         \* the tuple convert_with_fallback returned for the document
    last_run,    \* the latest run_pandoc call: the pair it returned, its format,
                 \* the error channel of the process and what the process wrote
    dirs,        \* directories created by the script
    out_md,      \* content of the output file of every file of the tree
    log,         \* what this run appended to _convert_log.txt
    console,     \* the [OK] and [FAIL] lines printed
    exit_code,   \* exit status once the process ended
    passed,      \* the documents handed to convert_with_fallback, in order
    invoked,     \* per document, the run_pandoc calls: candidate index, success
    rewrites,    \* per document, how often the driver rewrote the output file
    npc,         \* normalizer: "input", "once", "twice" (or "off")
    md_text,     \* normalizer: the text handed to clean_markdown
    md_once,     \* normalizer: clean_markdown(md_text)
    md_twice     \* normalizer: clean_markdown(md_once)

mainvars == <<pc, tree, pandoc_ver, docx_files, di, ok_count, fail_count, ci,
              last_error, ret, last_run, dirs, out_md, log, console, exit_code,
              passed, invoked, rewrites>>

nvars == <<npc, md_text, md_once, md_twice>>

vars == <<pc, tree, pandoc_ver, docx_files, di, ok_count, fail_count, ci,
          last_error, ret, last_run, dirs, out_md, log, console, exit_code,
          passed, invoked, rewrites, npc, md_text, md_once, md_twice>>

NoRet == [success |-> FALSE, used_to |-> "-", msg |-> <<"-">>]

NoRun == [ok |-> FALSE, msg |-> <<"-">>, to_format |-> "-", stderr |-> <<"-">>,
          wrote |-> Absent]

\* the directories of the model
OutputDir == <<"output_dir">>
ParentDir(doc) == <<doc, "parent">>
MediaDir(doc) == <<doc, MEDIA_SUFFIX>>

\* the document of the current iteration of the loop of main
Doc == docx_files[di]

MainIdle(files) ==
    /\ tree = files
    /\ pandoc_ver = <<>>
    /\ docx_files = <<>>
    /\ di = 0
    /\ ok_count = 0
    /\ fail_count = 0
    /\ ci = 0
    /\ last_error = <<>>
    /\ ret = NoRet
    /\ last_run = NoRun
    /\ dirs = {}
    /\ out_md = [f \in files |-> Absent]
    /\ log = <<>>
    /\ console = <<>>
    /\ exit_code = -1
    /\ passed = <<>>
    /\ invoked = [f \in files |-> <<>>]
    /\ rewrites = [f \in files |-> 0]

NormIdle ==
    /\ md_text = <<>>
    /\ md_once = <<>>
    /\ md_twice = <<>>

Init ==
    /\ pc = "start"
    /\ npc = "off"
    /\ NormIdle
    /\ \E files \in SUBSET PathUniverse :
          /\ Cardinality(files) <= MaxFiles
          /\ MainIdle(files)

----------------------------------------------------------------------------
(* main and convert_with_fallback *)

\* a main that makes the output directory before it checks for pandoc
CheckPandocAfterMkdir ==
    /\ pc = "start"
    /\ dirs' = dirs \cup {OutputDir}
    /\ \/ \E stdout \in VersionOutputs :
             /\ pandoc_ver' = VersionOf(stdout)
             /\ pc' = "discover"
             /\ UNCHANGED exit_code
       \/ \E error \in {"FileNotFoundError", "CalledProcessError"} :
             /\ pc' = "aborted"
             /\ exit_code' = 1
             /\ UNCHANGED pandoc_ver
    /\ UNCHANGED <<tree, docx_files, di, ok_count, fail_count, ci, last_error,
                   ret, last_run, out_md, log, console, passed, invoked,
                   rewrites, nvars>>

\* check_pandoc, called first by main: the version, or SystemExit(1)
CheckPandoc ==
    /\ pc = "start"
    /\ \/ \E stdout \in VersionOutputs :
             /\ pandoc_ver' = VersionOf(stdout)
             /\ pc' = "discover"
             /\ UNCHANGED exit_code
       \/ \E error \in {"FileNotFoundError", "CalledProcessError"} :
             /\ pc' = "aborted"
             /\ exit_code' = 1
             /\ UNCHANGED pandoc_ver
    /\ UNCHANGED <<tree, docx_files, di, ok_count, fail_count, ci, last_error,
                   ret, last_run, dirs, out_md, log, console, passed, invoked,
                   rewrites, nvars>>

\* main from output_dir.mkdir to the test of docx_files
Discover ==
    /\ pc = "discover"
    /\ dirs' = dirs \cup {OutputDir}
    /\ docx_files' = Sorted({f \in tree : Discovered(f)})
    /\ IF docx_files' = <<>>
       THEN pc' = "done" /\ exit_code' = 0
       ELSE pc' = "openlog" /\ UNCHANGED exit_code
    /\ UNCHANGED <<tree, pandoc_ver, di, ok_count, fail_count, ci, last_error,
                   ret, last_run, out_md, log, console, passed, invoked,
                   rewrites, nvars>>

\* the header block of the run log
Header == [kind |-> "header", pandoc |-> pandoc_ver, files |-> Len(docx_files),
           candidates |-> TO_CANDIDATES]

\* main: the counters, the log is opened and the header written
OpenLog ==
    /\ pc = "openlog"
    /\ ok_count' = 0
    /\ fail_count' = 0
    /\ log' = Append(log, Header)
    /\ di' = 1
    /\ pc' = "call"
    /\ UNCHANGED <<tree, pandoc_ver, docx_files, ci, last_error, ret, last_run,
                   dirs, out_md, console, exit_code, passed, invoked, rewrites,
                   nvars>>

\* a driver that leaves the media directory to the converter
CallDriverNoMediaDir ==
    /\ pc = "call"
    /\ passed' = Append(passed, Doc)
    /\ dirs' = dirs \cup {ParentDir(Doc)}
    /\ last_error' = <<>>
    /\ ci' = 1
    /\ ret' = NoRet
    /\ pc' = "attempt"
    /\ UNCHANGED <<tree, pandoc_ver, docx_files, di, ok_count, fail_count,
                   last_run, out_md, log, console, exit_code, invoked,
                   rewrites, nvars>>

\* main calls convert_with_fallback for the document; the driver makes the two
\* directories and clears last_error
CallDriver ==
    /\ pc = "call"
    /\ passed' = Append(passed, Doc)
    /\ dirs' = dirs \cup {ParentDir(Doc), MediaDir(Doc)}
    /\ last_error' = <<>>
    /\ ci' = 1
    /\ ret' = NoRet
    /\ pc' = "attempt"
    /\ UNCHANGED <<tree, pandoc_ver, docx_files, di, ok_count, fail_count,
                   last_run, out_md, log, console, exit_code, invoked,
                   rewrites, nvars>>

\* a loop that steps over a candidate after a failure
NextCandidateSkip(i) == i + 2

\* a loop that starts over after the last candidate failed
NextCandidateAgain(i) == IF i = Len(TO_CANDIDATES) THEN 1 ELSE i + 1

\* the index of the loop after a failed candidate
NextCandidate(i) == i + 1

\* one iteration of the loop over TO_CANDIDATES
Attempt ==
    /\ pc = "attempt"
    /\ ci <= Len(TO_CANDIDATES)
    /\ \E proc \in ProcResults :
          LET to_format == TO_CANDIDATES[ci]
              result == run_pandoc(proc)
              ok == result[1]
              msg == result[2]
              written == IF proc.wrote = Absent THEN out_md[Doc] ELSE proc.wrote
          IN  /\ invoked' = [invoked EXCEPT ![Doc] = Append(@, [cand |-> ci, ok |-> ok])]
              /\ last_run' = [ok |-> ok, msg |-> msg, to_format |-> to_format,
                              stderr |-> proc.stderr, wrote |-> proc.wrote]
              /\ IF ok
                 THEN /\ out_md' = [out_md EXCEPT ![Doc] = clean_markdown(ReadBack(written))]
                      /\ rewrites' = [rewrites EXCEPT ![Doc] = @ + 1]
                      /\ ret' = [success |-> TRUE, used_to |-> to_format,
                                 msg |-> Or(msg, <<>>)]
                      /\ pc' = "report"
                      /\ UNCHANGED <<ci, last_error>>
                 ELSE /\ out_md' = [out_md EXCEPT ![Doc] = written]
                      /\ last_error' = FormatLastError(to_format, msg)
                      /\ ci' = NextCandidate(ci)
                      /\ UNCHANGED <<rewrites, ret, pc>>
    /\ UNCHANGED <<tree, pandoc_ver, docx_files, di, ok_count, fail_count,
                   dirs, log, console, exit_code, passed, nvars>>

\* a driver that returns the last format tried with the failure
ReturnFailureWithFormat ==
    /\ pc = "attempt"
    /\ ci > Len(TO_CANDIDATES)
    /\ ret' = [success |-> FALSE, used_to |-> TO_CANDIDATES[Len(TO_CANDIDATES)],
               msg |-> last_error]
    /\ pc' = "report"
    /\ UNCHANGED <<tree, pandoc_ver, docx_files, di, ok_count, fail_count, ci,
                   last_error, last_run, dirs, out_md, log, console, exit_code,
                   passed, invoked, rewrites, nvars>>

\* the loop over TO_CANDIDATES is exhausted: return False, "", last_error
ReturnFailure ==
    /\ pc = "attempt"
    /\ ci > Len(TO_CANDIDATES)
    /\ ret' = [success |-> FALSE, used_to |-> "", msg |-> last_error]
    /\ pc' = "report"
    /\ UNCHANGED <<tree, pandoc_ver, docx_files, di, ok_count, fail_count, ci,
                   last_error, last_run, dirs, out_md, log, console, exit_code,
                   passed, invoked, rewrites, nvars>>

\* a main that writes the warning line of every converted document
ReportCountsWarnAlways ==
    IF ret.success
    THEN /\ ok_count' = ok_count + 1
         /\ console' = Append(console, [kind |-> "OK", rel |-> Doc,
                                        used_to |-> ret.used_to])
         /\ log' = Append(log, [kind |-> "WARN", rel |-> Doc,
                                used_to |-> ret.used_to, msg |-> ret.msg])
         /\ UNCHANGED fail_count
    ELSE /\ fail_count' = fail_count + 1
         /\ console' = Append(console, [kind |-> "FAIL", rel |-> Doc])
         /\ log' = Append(log, [kind |-> "FAIL", rel |-> Doc, msg |-> ret.msg])
         /\ UNCHANGED ok_count

\* main after the call: counters, console line, log line
ReportCounts ==
    IF ret.success
    THEN /\ ok_count' = ok_count + 1
         /\ console' = Append(console, [kind |-> "OK", rel |-> Doc,
                                        used_to |-> ret.used_to])
         /\ log' = IF ret.msg # <<>>
                   THEN Append(log, [kind |-> "WARN", rel |-> Doc,
                                     used_to |-> ret.used_to, msg |-> ret.msg])
                   ELSE log
         /\ UNCHANGED fail_count
    ELSE /\ fail_count' = fail_count + 1
         /\ console' = Append(console, [kind |-> "FAIL", rel |-> Doc])
         /\ log' = Append(log, [kind |-> "FAIL", rel |-> Doc, msg |-> ret.msg])
         /\ UNCHANGED ok_count

\* a loop that ends at the first failed document
ReportAdvanceAbort ==
    IF ret.success /\ di < Len(docx_files)
    THEN di' = di + 1 /\ pc' = "call"
    ELSE pc' = "summary" /\ UNCHANGED di

\* the for loop of main goes to the next document, or ends
ReportAdvance ==
    IF di < Len(docx_files)
    THEN di' = di + 1 /\ pc' = "call"
    ELSE pc' = "summary" /\ UNCHANGED di

\* the rest of the body of the loop of main, after the call of the driver
Report ==
    /\ pc = "report"
    /\ ReportCounts
    /\ ReportAdvance
    /\ UNCHANGED <<tree, pandoc_ver, docx_files, ci, last_error, ret, last_run,
                   dirs, out_md, exit_code, passed, invoked, rewrites, nvars>>

\* a summary that counts every discovered document as converted
SummaryAllOk ==
    /\ pc = "summary"
    /\ log' = Append(log, [kind |-> "RESULT", ok |-> Len(docx_files), fail |-> 0])
    /\ pc' = "done"
    /\ exit_code' = 0
    /\ UNCHANGED <<tree, pandoc_ver, docx_files, di, ok_count, fail_count, ci,
                   last_error, ret, last_run, dirs, out_md, console, passed,
                   invoked, rewrites, nvars>>

\* main after the loop: the RESULT line, and the script ends
Summary ==
    /\ pc = "summary"
    /\ log' = Append(log, [kind |-> "RESULT", ok |-> ok_count, fail |-> fail_count])
    /\ pc' = "done"
    /\ exit_code' = 0
    /\ UNCHANGED <<tree, pandoc_ver, docx_files, di, ok_count, fail_count, ci,
                   last_error, ret, last_run, dirs, out_md, console, passed,
                   invoked, rewrites, nvars>>

Next ==
    \/ CheckPandoc
    \/ Discover
    \/ OpenLog
    \/ CallDriver
    \/ Attempt
    \/ ReturnFailure
    \/ Report
    \/ Summary

Spec == Init /\ [][Next]_vars

----------------------------------------------------------------------------
(* The normalizer applied to a text, and to its own output *)

InitNorm ==
    /\ pc = "off"
    /\ MainIdle({})
    /\ npc = "input"
    /\ md_text \in SeqsUpTo(Alphabet, MaxLen) \cup LongSamples
    /\ md_once = <<>>
    /\ md_twice = <<>>

Normalize ==
    /\ npc = "input"
    /\ npc' = "once"
    /\ md_once' = clean_markdown(md_text)
    /\ UNCHANGED <<md_text, md_twice, mainvars>>

Renormalize ==
    /\ npc = "once"
    /\ npc' = "twice"
    /\ md_twice' = clean_markdown(md_once)
    /\ UNCHANGED <<md_text, md_once, mainvars>>

NextNorm == Normalize \/ Renormalize

SpecNorm == InitNorm /\ [][NextNorm]_vars

----------------------------------------------------------------------------
(* Properties of the fallback driver *)

Range(seq) == {seq[t] : t \in 1..Len(seq)}

\* C1: for every document the converter is invoked on the candidates in list
\* order, once each, and never after a success: the calls made so far are
\* candidates 1..n with only the last one possibly successful, and a
\* document reported OK carries the format of its last (first successful) call.
C1_FallbackOrder ==
    /\ \A f \in DOMAIN invoked :
          /\ \A t \in 1..Len(invoked[f]) : invoked[f][t].cand = t
          /\ Len(invoked[f]) <= Len(TO_CANDIDATES)
          /\ \A t \in 1..(Len(invoked[f]) - 1) : ~invoked[f][t].ok
    /\ pc = "report" =>
          /\ ret.success <=> invoked[Doc][Len(invoked[Doc])].ok
          /\ ret.success => ret.used_to = TO_CANDIDATES[Len(invoked[Doc])]
    /\ \A t \in 1..Len(console) :
          console[t].kind = "OK" =>
              /\ invoked[console[t].rel][Len(invoked[console[t].rel])].ok
              /\ console[t].used_to = TO_CANDIDATES[Len(invoked[console[t].rel])]

\* C1 witness: a finished run in which a document succeeded with the fourth
\* candidate after three failures, and no later candidate was invoked
C1_Witness ==
    /\ pc = "done"
    /\ \E t \in 1..Len(console) :
          /\ console[t].kind = "OK"
          /\ console[t].used_to = "gfm"
          /\ Len(invoked[console[t].rel]) = 4

\* C2 as stated: when every candidate failed, the message of the driver equals
\* the diagnostic text of the last candidate attempted
C2_MessageIsLastDiagnostic ==
    (pc = "report" /\ ~ret.success) => ret.msg = last_run.msg

\* C2 amended: when every candidate failed, the driver reports failure and its
\* message is the last candidate's diagnostic text behind the tag "[plain] "
\* that names the last candidate; no earlier candidate's text is part of it
C2_MessageIsTaggedLastDiagnostic ==
    (pc = "report" /\ Len(invoked[Doc]) = Len(TO_CANDIDATES)
                   /\ ~invoked[Doc][Len(TO_CANDIDATES)].ok) =>
        /\ ~ret.success
        /\ last_run.to_format = "plain"
        /\ ret.msg = <<"[plain] ">> \o last_run.msg

\* C2 witness: every candidate failed, the last one with the text "e"
C2_Witness ==
    /\ pc = "report"
    /\ ~ret.success
    /\ Len(invoked[Doc]) = Len(TO_CANDIDATES)
    /\ ret.msg = <<"[plain] ", "e">>

\* C4: a failed document does not abort the batch: the documents handed to the
\* driver are the discovered ones, each once and in sorted order, whatever the
\* earlier outcomes; every finished document has one console line, ok or fail,
\* and is counted once; at the end of the loop ok_count + fail_count is the
\* number of discovered documents
C4_BatchContinues ==
    /\ pc \notin {"start", "aborted", "discover"} =>
          /\ Range(docx_files) = {f \in tree : Discovered(f)}
          /\ \A i, j \in 1..Len(docx_files) : i < j => PathLess(docx_files[i], docx_files[j])
    /\ Len(passed) <= Len(docx_files)
    /\ passed = SubSeq(docx_files, 1, Len(passed))
    /\ Len(console) <= Len(passed)
    /\ \A t \in 1..Len(console) : console[t].rel = docx_files[t]
    /\ ok_count = Cardinality({t \in 1..Len(console) : console[t].kind = "OK"})
    /\ fail_count = Cardinality({t \in 1..Len(console) : console[t].kind = "FAIL"})
    /\ ok_count + fail_count = Len(console)
    /\ pc \in {"summary", "done"} =>
          /\ passed = docx_files
          /\ ok_count + fail_count = Len(docx_files)

\* C4 witness: a finished run of two documents, the first of which failed on
\* every candidate
C4_Witness ==
    /\ pc = "done"
    /\ Len(docx_files) >= 2
    /\ console[1].kind = "FAIL"
    /\ Len(invoked[docx_files[2]]) >= 1
    /\ ok_count >= 1

\* C5: when the startup check fails the run ends before any document is
\* processed: no conversion is invoked, no directory is created and nothing
\* is written to the run log
C5_StartupAbort ==
    (pc = "aborted" \/ exit_code = 1) =>
        /\ pc = "aborted"
        /\ exit_code = 1
        /\ dirs = {}
        /\ log = <<>>
        /\ console = <<>>
        /\ passed = <<>>
        /\ \A f \in tree : invoked[f] = <<>> /\ out_md[f] = Absent

\* C5 witness: the check failed although the tree holds a document to convert
C5_Witness ==
    /\ pc = "aborted"
    /\ \E f \in tree : Discovered(f)

\* C6 as stated: after the driver returned failure it has created neither the
\* output file nor the media directory of the document
C6_NothingCreatedOnFailure ==
    (pc = "report" /\ ~ret.success) =>
        /\ rewrites[Doc] = 0
        /\ MediaDir(Doc) \notin dirs

\* C6 amended: after the driver returned failure it has never written the
\* output file (what is at the output path is what the converter left there),
\* but the media directory and the parent directory of the output file exist:
\* the driver makes both before the first attempt, whatever the outcome
C6_OnlyDirectoriesOnFailure ==
    /\ (pc = "report" /\ ~ret.success) =>
          /\ rewrites[Doc] = 0
          /\ out_md[Doc] \in {Absent, PartialOutput}
    /\ \A t \in 1..Len(console) :
          console[t].kind = "FAIL" => rewrites[console[t].rel] = 0
    /\ \A t \in 1..Len(passed) :
          {ParentDir(passed[t]), MediaDir(passed[t])} \subseteq dirs

\* C6 witness: the driver returned failure for a document
C6_Witness ==
    /\ pc = "report"
    /\ ~ret.success
    /\ Len(invoked[Doc]) = Len(TO_CANDIDATES)
    /\ MediaDir(Doc) \in dirs

\* C7: in every outcome the driver returns, the chosen format is a non-empty
\* member of the candidate list if and only if the outcome is a success, and
\* it is empty on failure
C7_FormatIffSuccess ==
    /\ \A k \in 1..Len(TO_CANDIDATES) : TO_CANDIDATES[k] # ""
    /\ pc = "report" =>
          /\ ret.success <=> ret.used_to \in Range(TO_CANDIDATES)
          /\ ret.success <=> ret.used_to # ""

\* C7 witness: the driver returned a success after it had returned a failure
\* for the document before
C7_Witness ==
    /\ pc = "report"
    /\ ret.success
    /\ Len(console) >= 1
    /\ console[1].kind = "FAIL"

\* the files the path exclusion is about
Excluded(f) ==
    \/ \E t \in 1..Len(f) : f[t] \in {VS, MD_OUT, PYCACHE, GIT}
    \/ (Name(f)[1] = "~" /\ Name(f)[2] = "$")

\* C8: a file with a part of its relative path in the skip set, or with a
\* name that begins with "~$", is never handed to the driver
C8_PathExclusion ==
    \A f \in tree :
        Excluded(f) => /\ f \notin Range(passed)
                       /\ f \notin Range(docx_files)
                       /\ invoked[f] = <<>>

\* C8 witness: a finished run that converted a document of a tree which also
\* holds a file below a skipped directory that is not at the top of the tree
C8_Witness ==
    /\ pc = "done"
    /\ passed # <<>>
    /\ \E f \in tree : Len(f) >= 3 /\ Excluded(f) /\ GlobDocx(f)

\* the positions of the log entries, and of the console lines, of a kind
LogOf(kind) == {t \in 1..Len(log) : log[t].kind = kind}

ConsoleOf(kind) == {t \in 1..Len(console) : console[t].kind = kind}

\* the log of a run that ended: one header first, one summary last, between
\* them a failure block per failed document and warning lines of converted
\* documents only, and the counts of the summary are those of the run
LogOfRunComplete ==
    /\ Len(log) >= 2
    /\ LogOf("header") = {1}
    /\ LogOf("RESULT") = {Len(log)}
    /\ log[1].files = Len(docx_files)
    /\ log[1].candidates = TO_CANDIDATES
    /\ log[Len(log)].ok = Cardinality(ConsoleOf("OK"))
    /\ log[Len(log)].fail = Cardinality(ConsoleOf("FAIL"))
    /\ log[Len(log)].ok + log[Len(log)].fail = Len(docx_files)
    /\ Cardinality(LogOf("FAIL")) = Cardinality(ConsoleOf("FAIL"))
    /\ {log[t].rel : t \in LogOf("FAIL")} = {console[t].rel : t \in ConsoleOf("FAIL")}
    /\ \A t, u \in LogOf("WARN") : log[t].rel = log[u].rel => t = u
    /\ \A t \in LogOf("WARN") :
          /\ log[t].msg # <<>>
          /\ log[t].rel \in {console[u].rel : u \in ConsoleOf("OK")}

\* C14 as stated: every run that passes the startup check, also one that
\* discovers no document, appends one header block and one summary line
C14_EveryRunLogs == pc = "done" => LogOfRunComplete

\* C14 amended: a run that passes the startup check and discovers at least one
\* document appends one header block, one summary line with the counts of the
\* run, and between them a failure block per failed document and a warning
\* line per document converted with a non-empty diagnostic; a run that
\* discovers no document appends nothing to the log
C14_RunWithDocumentsLogs ==
    /\ (pc = "done" /\ docx_files # <<>>) => LogOfRunComplete
    /\ (pc = "done" /\ docx_files = <<>>) => log = <<>>
    /\ (pc \in {"call", "summary"} /\ console # <<>> /\ ret.success) =>
          (ret.msg # <<>> <=>
              /\ log[Len(log)].kind = "WARN"
              /\ log[Len(log)].rel = console[Len(console)].rel)

\* C14 witness: a run that ended after a failed document and a document
\* converted with a warning
C14_Witness ==
    /\ pc = "done"
    /\ Len(docx_files) = 2
    /\ LogOf("FAIL") # {}
    /\ LogOf("WARN") # {}
    /\ Len(log) = 4

\* the normalized text of each of the two outputs of a successful pandoc run
ExpectedClean(raw) ==
    IF raw = <<"a", BadByte, NL>> THEN <<"a", ReplacementChar, NL>>
    ELSE <<"a", NL, NL, "a", NL>>

\* C15: when the driver returns success the output file holds clean_markdown
\* of the text the winning attempt wrote; the driver rewrites the file once,
\* after the successful attempt only, and nothing a failed attempt wrote is
\* left in it
C15_OutputIsCleanedWinner ==
    /\ (pc = "report" /\ ret.success) =>
          /\ last_run.ok
          /\ last_run.wrote \in RawOutputs
          /\ out_md[Doc] = clean_markdown(ReadBack(last_run.wrote))
          /\ out_md[Doc] = ExpectedClean(last_run.wrote)
          /\ rewrites[Doc] = 1
    /\ \A f \in tree :
          rewrites[f] = Cardinality({t \in 1..Len(invoked[f]) : invoked[f][t].ok})
    /\ \A t \in ConsoleOf("OK") :
          /\ rewrites[console[t].rel] = 1
          /\ out_md[console[t].rel] \in {ExpectedClean(raw) : raw \in RawOutputs}
    /\ \A t \in ConsoleOf("FAIL") : rewrites[console[t].rel] = 0

\* C15 witness: the driver returns success after failed attempts, the winning
\* attempt having written bytes that strict decoding rejects
C15_Witness ==
    /\ pc = "report"
    /\ ret.success
    /\ Len(invoked[Doc]) = 3
    /\ last_run.wrote = <<"a", BadByte, NL>>
    /\ out_md[Doc] = <<"a", ReplacementChar, NL>>

\* C16: when a document succeeds after failed candidates the message of the
\* driver is the error-channel text of the winning attempt (as run_pandoc
\* returns it, without the whitespace around it) and holds nothing of the
\* diagnostics of the failed attempts; main writes a warning line for the
\* document if and only if the message is not empty, writes no failure block
\* for it and counts it as ok
C16_WinnerDiagnosticOnly ==
    /\ (pc = "report" /\ ret.success) =>
          /\ last_run.ok
          /\ ret.msg = strip(last_run.stderr)
          /\ ret.msg \in {<<>>, <<"e">>}
          /\ Len(invoked[Doc]) >= 2 =>
                /\ last_error # <<>>
                /\ last_error[1] \notin Range(ret.msg)
    /\ (pc \in {"call", "summary"} /\ console # <<>> /\ ret.success) =>
          /\ console[Len(console)].kind = "OK"
          /\ console[Len(console)].used_to = ret.used_to
          /\ ret.msg # <<>> <=>
                log[Len(log)] = [kind |-> "WARN", rel |-> console[Len(console)].rel,
                                 used_to |-> ret.used_to, msg |-> ret.msg]
          /\ ret.msg = <<>> =>
                \A t \in LogOf("WARN") : log[t].rel # console[Len(console)].rel
    /\ \A t \in ConsoleOf("OK") : \A u \in LogOf("FAIL") : log[u].rel # console[t].rel
    /\ ok_count = Cardinality(ConsoleOf("OK"))

\* C16 witness: main has handled a document that succeeded with a warning
\* after two candidates had failed with a diagnostic
C16_Witness ==
    /\ pc \in {"call", "summary"}
    /\ console # <<>>
    /\ ret.success
    /\ ret.msg = <<"e">>
    /\ Len(invoked[console[Len(console)].rel]) = 3
    /\ last_error = <<"[gfm-raw_html-fenced_divs] ", "e">>
    /\ log[Len(log)].kind = "WARN"

\* the number of run_pandoc calls made for the files of a set
RECURSIVE Invocations(_)
Invocations(S) ==
    IF S = {} THEN 0
    ELSE LET f == CHOOSE x \in S : TRUE
         IN  Len(invoked[f]) + Invocations(S \ {f})

\* an upper bound of the number of steps main still takes: every document
\* costs the call, one step per candidate, the return and the report
StepsLeft ==
    LET K == Len(TO_CANDIDATES)
        N == Len(docx_files)
    IN  CASE pc = "start" -> 4 + Cardinality(tree) * (K + 3)
          [] pc = "discover" -> 3 + Cardinality(tree) * (K + 3)
          [] pc = "openlog" -> 2 + N * (K + 3)
          [] pc = "call" -> 1 + (N - di + 1) * (K + 3)
          [] pc = "attempt" -> 1 + (N - di) * (K + 3) + (K - ci + 1) + 2
          [] pc = "report" -> 1 + (N - di) * (K + 3) + 1
          [] pc = "summary" -> 1
          [] OTHER -> 0

\* C18: every external invocation returning, the loop of the driver ends, with
\* the first success or with the list exhausted, after at most as many
\* invocations as there are candidates and without a second invocation of a
\* candidate, and a batch of n documents ends after at most n times as many
\* invocations: every step of the script lowers a bound of the steps left
C18_Terminates ==
    /\ [](\A f \in tree :
            /\ Len(invoked[f]) <= Len(TO_CANDIDATES)
            /\ \A t, u \in 1..Len(invoked[f]) :
                  invoked[f][t].cand = invoked[f][u].cand => t = u)
    /\ [](Invocations(tree) <= Len(docx_files) * Len(TO_CANDIDATES))
    /\ [](pc = "report" => (ret.success \/ Len(invoked[Doc]) = Len(TO_CANDIDATES)))
    /\ [](StepsLeft >= 0 /\ (StepsLeft = 0 <=> pc \in {"done", "aborted"}))
    /\ [][StepsLeft' < StepsLeft]_vars

\* C18 witness: a batch of two documents that ended after every candidate had
\* failed for both
C18_Witness ==
    /\ pc = "done"
    /\ Len(docx_files) = 2
    /\ Invocations(tree) = 2 * Len(TO_CANDIDATES)

----------------------------------------------------------------------------
(* Properties of the normalizer *)

\* C3: normalization is idempotent: clean_markdown(clean_markdown(x)) equals
\* clean_markdown(x) for every text x
C3_Idempotent == npc = "twice" => md_twice = md_once

HasTripleNewline(text) ==
    \E t \in 1..(Len(text) - 2) : text[t] = NL /\ text[t + 1] = NL /\ text[t + 2] = NL

\* C9: for every non-empty input the output of clean_markdown is a text with
\* no whitespace at its start and none at its end, followed by one newline:
\* it ends with exactly one newline and has no blank line before it
C9_TrailingNewline ==
    (npc # "input" /\ md_text # <<>>) =>
        /\ Len(md_once) >= 1
        /\ md_once[Len(md_once)] = NL
        /\ Len(md_once) >= 2 =>
              /\ md_once[Len(md_once) - 1] \notin Whitespace
              /\ md_once[1] \notin Whitespace

\* C9 witness: an input with whitespace and blank lines around its content
C9_Witness ==
    /\ npc = "once"
    /\ md_text = <<" ", NL, "a", NL, NL>>
    /\ md_once = <<"a", NL>>

\* C10: the output of clean_markdown never holds three or more newline
\* characters in a row
C10_NoBlankRun ==
    npc # "input" => ~HasTripleNewline(md_once)

\* C10 witness: the lines between two content lines became empty by attribute
\* and tag stripping, and the run of newlines they left was collapsed
C10_Witness ==
    /\ npc = "once"
    /\ md_text = <<"a", NL, "{", "}", NL, "<", "a", ">", NL, "a">>
    /\ HasTripleNewline(join(OutLines(splitlines(md_text))))
    /\ md_once = <<"a", NL, NL, "a", NL>>

\* a line that is three or more colons, with or without a brace group behind
IsFenceDelimiter(line) ==
    LET n == Len(line)
    IN  \E j \in 3..n :
            /\ AllIn(line, 1, j, {":"})
            /\ \/ j = n
               \/ \E k \in j..(n - 2) :
                     /\ AllIn(line, j + 1, k, {" "})
                     /\ line[k + 1] = "{"
                     /\ line[n] = "}"

\* a line whose end is a group {...} without a closing brace inside
EndsWithBraceGroup(line) ==
    LET n == Len(line)
    IN  /\ n >= 2
        /\ line[n] = "}"
        /\ \E b \in 1..(n - 1) :
              line[b] = "{" /\ \A t \in (b + 1)..(n - 1) : line[t] # "}"

\* a line that holds a token <name ...> or </name ...>
HoldsTag(line) == \E p \in 1..Len(line) : HtmlTagEnds(line, p) # {}

\* C11: every input line that is three or more colons, with or without a
\* brace group behind, is dropped, and no line of the normalized output is
\* such a line
C11_NoFenceLineLeft ==
    npc # "input" =>
        /\ \A line \in Range(splitlines(md_text)) :
              IsFenceDelimiter(line) => RE_FENCED_DIV_LINE(line)
        /\ \A line \in Range(splitlines(md_once)) : ~IsFenceDelimiter(line)

\* C12: of every line that ends with a brace group the group and the
\* whitespace before it are removed, and no line of the normalized output
\* ends with a brace group
C12_NoTrailingGroupLeft ==
    npc # "input" =>
        /\ \A line \in Range(splitlines(md_text)) :
              EndsWithBraceGroup(line) =>
                  LET r == RE_ATTR_TRAILING_sub(line)
                  IN  /\ Len(r) < Len(line)
                      /\ r = SubSeq(line, 1, Len(r))
                      /\ r = <<>> \/ r[Len(r)] \notin Whitespace
        /\ \A line \in Range(splitlines(md_once)) : ~EndsWithBraceGroup(line)

\* C13: every tag-like token is removed and the text between tags is kept
\* ("<a>a</a> a" becomes "a a"), so that no line of the normalized output holds
\* such a token
C13_NoTagLeft ==
    npc # "input" =>
        /\ md_text = <<"<", "a", ">", "a", "<", "/", "a", ">", " ", "a">> =>
              md_once = <<"a", " ", "a", NL>>
        /\ \A line \in Range(splitlines(md_once)) : ~HoldsTag(line)

\* a line made of fence delimiters and brace groups only
RECURSIVE MarkupOnlyFrom(_, _)
MarkupOnlyFrom(line, i) ==
    \/ i > Len(line)
    \/ line[i] = " " /\ MarkupOnlyFrom(line, i + 1)
    \/ \E j \in (i + 2)..Len(line) :
          AllIn(line, i, j, {":"}) /\ MarkupOnlyFrom(line, j + 1)
    \/ /\ line[i] = "{"
       /\ \E q \in (i + 1)..Len(line) :
             /\ line[q] = "}"
             /\ \A t \in (i + 1)..(q - 1) : line[t] \notin {"{", "}"}
             /\ MarkupOnlyFrom(line, q + 1)

\* C17: clean_markdown of the empty text, and of a text whose every line is
\* made of fence delimiters and brace groups only, is the single newline
C17_MarkupOnlyIsNewline ==
    (npc # "input" /\ \A line \in Range(splitlines(md_text)) : MarkupOnlyFrom(line, 1)) =>
        md_once = <<NL>>

====
